---- MODULE Spec2Model ----
(***************************************************************************)
(* A model of the lss linear-system library: the index pair and the vector *)
(* transformations of lss_utilities.hpp, the generic read dispatch of the  *)
(* same file, and the LAPACK solve adapter of LAPACK.hpp.                  *)
(***************************************************************************)
EXTENDS Integers, Sequences, FiniteSets, TLC

VARIABLES T, m_A, m_b, m_x, solved, nsolve, last, idx, vec, rd

vars == <<T, m_A, m_b, m_x, solved, nsolve, last, idx, vec, rd>>

(***************************************************************************)
(* Bounds of the model.                                                    *)
(***************************************************************************)
\* largest matrix extent (rows or columns) a resize may ask for
MaxN == 2
\* width of size_t in the model (64 in the build)
SizeBits == 4
\* width of int in the model (32 in the build); narrower than size_t
IntBits == 3
\* longest index vector handed to a transformation
MaxLen == 3
\* longest file-name stem put before the extension
MaxStem == 2
\* most calls of solve() between two calls that set the system's values
MaxSolves == 2

(***************************************************************************)
(* Machine integers.                                                       *)
(***************************************************************************)
RECURSIVE Pow2(_)
Pow2(k) == IF k = 0 THEN 1 ELSE 2 * Pow2(k - 1)

\* std::numeric_limits< size_t >::max()
SIZE_MAX == Pow2(SizeBits) - 1

INT_MAX == Pow2(IntBits - 1) - 1

INT_MIN == 0 - Pow2(IntBits - 1)

SizeT == 0..SIZE_MAX

IntT == INT_MIN..INT_MAX

\* conversion of any integer to size_t: modulo 2^SizeBits
to_size_t(z) == z % Pow2(SizeBits)

\* conversion of any integer to int: modulo 2^IntBits, two's complement
to_int(z) ==
  LET m == z % Pow2(IntBits)
  IN IF m > INT_MAX THEN m - Pow2(IntBits) ELSE m

(***************************************************************************)
(* idx_t: the index pair <<i, j>>.                                         *)
(***************************************************************************)
\* idx_t(): both coordinates default to the largest size_t
idx_default == <<SIZE_MAX, SIZE_MAX>>

\* idx_t::operator<
idx_lt(a, b) ==
  IF a[1] < b[1] THEN TRUE ELSE IF a[1] > b[1] THEN FALSE ELSE a[2] < b[2]

\* idx_t::operator>
idx_gt(a, b) == idx_lt(b, a)

\* idx_t::operator==
idx_eq(a, b) == a[1] = b[1] /\ a[2] = b[2]

\* idx_t::operator!=
idx_ne(a, b) == a[1] # b[1] \/ a[2] # b[2]

\* idx_t::invalidate
invalidate(p) == idx_default

\* idx_t::is_valid_size
is_valid_size(p) == idx_gt(p, <<0, 0>>) /\ idx_lt(p, idx_default)

\* idx_t::is_square_size
is_square_size(p) == p[1] = p[2]

\* idx_t::is_diagonal
is_diagonal(p) == is_square_size(p)

(***************************************************************************)
(* Vector transformations on std::vector< size_t >.                        *)
(***************************************************************************)
RECURSIVE SortedSeqOf(_)
\* the elements of a finite set of numbers in ascending order
SortedSeqOf(S) ==
  IF S = {} THEN <<>>
  ELSE LET m == CHOOSE a \in S : \A c \in S : a <= c
       IN <<m>> \o SortedSeqOf(S \ {m})

\* vector_sort_unique::apply: std::sort, then erase(std::unique)
vector_sort_unique(v, e) == SortedSeqOf({v[k] : k \in 1..Len(v)})

\* vector_element_push_front::apply(v, size_t e)
vector_element_push_front(v, e) == <<e>> \o v

\* vector_element_push_back::apply(v, int e): push_back converts e to size_t
vector_element_push_back(v, e) == Append(v, to_size_t(e))

\* vector_element_remove::apply(v, int e): erase(remove_if(equal_to(size_t(e))))
vector_element_remove(v, e) == SelectSeq(v, LAMBDA el : ~(to_size_t(e) = el))

\* vector_add_value::add_value::operator(): the value it returns
add_value(el, diff) == to_size_t(to_int(el) + diff)

\* vector_add_value::apply: std::for_each drops what the functor returns, and
\* the functor never writes through its reference
vector_add_value(v, e) ==
  LET returned == [k \in 1..Len(v) |-> add_value(v[k], e)]
  IN v

\* vector_sorted_t: transform_list_t< sort_unique, transform_list_t< push_back > >
\* (the nested transformation is applied first)
vector_sorted_t(v, e) == vector_sort_unique(vector_element_push_back(v, e), e)

\* vector_sorted_diagonal_first_t: remove, then sort_unique, then push_front;
\* apply takes its element as int, push_front converts it back to size_t
vector_sorted_diagonal_first_t(v, e) ==
  vector_element_push_front(
    vector_sort_unique(vector_element_remove(v, e), e), to_size_t(e))

(***************************************************************************)
(* Generic read dispatch.  A file name is a sequence of characters.        *)
(***************************************************************************)
\* std::string::npos
npos == SIZE_MAX

\* std::string::find_last_of(c): 0-based position of the last c, or npos
find_last_of(s, c) ==
  LET hits == {k \in 1..Len(s) : s[k] = c}
  IN IF hits = {} THEN npos
     ELSE (CHOOSE k \in hits : \A h \in hits : h <= k) - 1

\* whether std::string::substr(pos) throws std::out_of_range
substr_throws(s, pos) == pos > Len(s)

\* std::string::substr(pos), for pos <= size()
substr(s, pos) == SubSeq(s, pos + 1, Len(s))

\* the branch read_dense/read_sparse take on the file name: the substr of the
\* first comparison throws before anything else is looked at
backend_of(fname) ==
  LET pos == find_last_of(fname, ".")
  IN IF substr_throws(fname, pos) THEN "out_of_range"
     ELSE IF substr(fname, pos) = <<".", "m", "t", "x">> THEN "MatrixMarket"
     ELSE IF substr(fname, pos) = <<".", "r", "u", "a">> THEN "HarwellBoeing"
     ELSE IF substr(fname, pos) = <<".", "c", "s", "r">> THEN "CSR"
     ELSE "runtime_error"

\* typeid(T)!=typeid(double)
storage_conversion_needed(t) == t # "double"

\* the value read_dense/read_sparse return once a backend has returned ret
read_return(ret) == TRUE

\* what one call of the generic reader fn does, the chosen backend returning ret
read_call(fn, fname, t, ret) ==
  LET be == backend_of(fname)
      called == be \in {"MatrixMarket", "HarwellBoeing", "CSR"}
  IN [fn |-> fn, fname |-> fname, T |-> t,
      backend |-> IF called THEN be ELSE "none",
      backendRet |-> called /\ ret,
      thrown |-> IF called THEN "none" ELSE be,
      what |-> IF be = "runtime_error" THEN fname ELSE <<>>,
      converted |-> called /\ storage_conversion_needed(t),
      returned |-> called /\ read_return(ret)]

(***************************************************************************)
(* Values of the numeric type T.  The elimination divides, so a value is   *)
(* an exact fraction <<numerator, denominator>> in lowest terms; on the    *)
(* small 0/1 systems of the model binary floating point is exact too.      *)
(***************************************************************************)
Abs(z) == IF z < 0 THEN 0 - z ELSE z

RECURSIVE Gcd(_, _)
Gcd(p, q) == IF q = 0 THEN p ELSE Gcd(q, p % q)

Frac(p, q) ==
  LET g == Gcd(Abs(p), Abs(q))
      sgn == IF q < 0 THEN 0 - 1 ELSE 1
  IN <<(sgn * p) \div g, (sgn * q) \div g>>

\* T(): the value-initialised element
Zero == <<0, 1>>

Num(z) == <<z, 1>>

FSub(p, q) == Frac(p[1] * q[2] - q[1] * p[2], p[2] * q[2])

FMul(p, q) == Frac(p[1] * q[1], p[2] * q[2])

FDiv(p, q) == Frac(p[1] * q[2], p[2] * q[1])

\* |p| < |q|
FAbsLess(p, q) == Abs(p[1]) * q[2] < Abs(q[1]) * p[2]

(***************************************************************************)
(* The native routines dgesv_ and sgesv_ (LAPACK xGESV), on column-major   *)
(* buffers: LU factorisation with partial pivoting written over a, then    *)
(* the solution written over b.                                            *)
(***************************************************************************)
\* number of parameters of dgesv_/sgesv_: an invalid parameter k gives info = -k
GesvArgs == 8

\* position of element (r, c) in a column-major buffer of leading dimension ld
At(ld, r, c) == (c - 1) * ld + r

\* rows r1 and r2 of the n-row column-major buffer a exchanged
SwapRows(a, n, r1, r2) ==
  [k \in 1..Len(a) |->
     LET r == ((k - 1) % n) + 1
         c == ((k - 1) \div n) + 1
     IN IF r = r1 THEN a[At(n, r2, c)]
        ELSE IF r = r2 THEN a[At(n, r1, c)]
        ELSE a[k]]

\* the first row at or below j whose entry in column j is largest in magnitude
PivotRow(a, n, j) ==
  CHOOSE p \in j..n :
    /\ \A r \in j..n : ~FAbsLess(a[At(n, p, j)], a[At(n, r, j)])
    /\ \A r \in j..(p - 1) : FAbsLess(a[At(n, r, j)], a[At(n, p, j)])

\* column j below the diagonal divided by the pivot a(j, j)
ScaleColumn(a, n, j) ==
  [k \in 1..Len(a) |->
     IF ((k - 1) \div n) + 1 = j /\ ((k - 1) % n) + 1 > j
       THEN FDiv(a[k], a[At(n, j, j)]) ELSE a[k]]

\* the rank-one update of the rows and columns after j
UpdateTrailing(a, n, j) ==
  [k \in 1..Len(a) |->
     IF ((k - 1) % n) + 1 > j /\ ((k - 1) \div n) + 1 > j
       THEN FSub(a[k], FMul(a[At(n, ((k - 1) % n) + 1, j)],
                            a[At(n, j, ((k - 1) \div n) + 1)]))
       ELSE a[k]]

\* column j with its pivot in row p: exchange and scale unless the pivot is
\* exactly zero, then update
EliminateWith(a, n, j, p) ==
  [a |-> UpdateTrailing(IF a[At(n, p, j)] # Zero
                          THEN ScaleColumn(SwapRows(a, n, j, p), n, j)
                          ELSE a, n, j),
   p |-> p,
   zero |-> a[At(n, p, j)] = Zero]

\* one column of the factorisation: pivot, exchange, scale, update
EliminateColumn(a, n, j) == EliminateWith(a, n, j, PivotRow(a, n, j))

RECURSIVE getrf(_, _, _, _, _)
RECURSIVE getrf_column(_, _, _, _, _)
\* xGETRF from column j on: the factors, the pivot rows, and info, the first
\* column whose pivot is exactly zero (0 when there is none)
getrf(a, n, j, ipiv, info) ==
  IF j > n THEN [a |-> a, ipiv |-> ipiv, info |-> info]
  ELSE getrf_column(EliminateColumn(a, n, j), n, j, ipiv, info)

\* the columns after j, column j eliminated as st says
getrf_column(st, n, j, ipiv, info) ==
  getrf(st.a, n, j + 1, Append(ipiv, st.p), IF st.zero /\ info = 0 THEN j ELSE info)

RECURSIVE ApplyPivots(_, _, _, _)
\* the row exchanges of the factorisation applied to b, in order
ApplyPivots(b, n, ipiv, j) ==
  IF j > n THEN b
  ELSE ApplyPivots(SwapRows(b, n, j, ipiv[j]), n, ipiv, j + 1)

RECURSIVE ForwardSolve(_, _, _, _)
\* L y = b with the unit lower triangle of lu, column by column
ForwardSolve(lu, b, n, j) ==
  IF j > n THEN b
  ELSE ForwardSolve(lu,
         [k \in 1..Len(b) |->
            IF ((k - 1) % n) + 1 > j
              THEN FSub(b[k], FMul(lu[At(n, ((k - 1) % n) + 1, j)],
                                   b[At(n, j, ((k - 1) \div n) + 1)]))
              ELSE b[k]],
         n, j + 1)

\* row j of b divided by the diagonal entry u(j, j)
DivideRow(lu, b, n, j) ==
  [k \in 1..Len(b) |->
     IF ((k - 1) % n) + 1 = j THEN FDiv(b[k], lu[At(n, j, j)]) ELSE b[k]]

\* column j of u taken out of the rows above j
EliminateAbove(lu, b, n, j) ==
  [k \in 1..Len(b) |->
     IF ((k - 1) % n) + 1 < j
       THEN FSub(b[k], FMul(lu[At(n, ((k - 1) % n) + 1, j)],
                            b[At(n, j, ((k - 1) \div n) + 1)]))
       ELSE b[k]]

RECURSIVE BackSolve(_, _, _, _)
\* U x = y with the upper triangle of lu, from the last column back
BackSolve(lu, b, n, j) ==
  IF j < 1 THEN b
  ELSE BackSolve(lu, EliminateAbove(lu, DivideRow(lu, b, n, j), n, j), n, j - 1)

\* xGETRS
getrs(lu, ipiv, b, n) ==
  BackSolve(lu, ForwardSolve(lu, ApplyPivots(b, n, ipiv, 1), n, 1), n, n)

\* xGESV once the arguments are accepted and a is factored as f says
gesv_factored(f, b, n) ==
  [info |-> f.info, a |-> f.a,
   b |-> IF f.info = 0 THEN getrs(f.a, f.ipiv, b, n) ELSE b]

\* xGESV(n, nrhs, a, lda, ipiv, b, ldb, info): what it leaves in a and b, and info
gesv(n, nrhs, a, lda, b, ldb) ==
  IF n < 0 THEN [info |-> 0 - 1, a |-> a, b |-> b]
  ELSE IF nrhs < 0 THEN [info |-> 0 - 2, a |-> a, b |-> b]
  ELSE IF lda < (IF n > 1 THEN n ELSE 1) THEN [info |-> 0 - 4, a |-> a, b |-> b]
  ELSE IF ldb < (IF n > 1 THEN n ELSE 1) THEN [info |-> 0 - 7, a |-> a, b |-> b]
  ELSE gesv_factored(getrf(a, n, 1, <<>>, 0), b, n)

(***************************************************************************)
(* Linear system storage: dense, column-oriented matrices                  *)
(* [size |-> <<rows, columns>>, a |-> the column-major buffer].            *)
(***************************************************************************)
\* resize(): the default of _size_k, one right-hand side
size_k_default == 1

\* the numeric types the template is instantiated with
Types == {"double", "float", "int"}

\* the values initialize() is given
Vals == {Num(0), Num(1)}

\* a matrix with no content
EmptyMatrix == [size |-> <<0, 0>>, a |-> <<>>]

\* dense_matrix_v::resize(i, j, value)
Filled(i, j, value) == [size |-> <<i, j>>, a |-> [k \in 1..(i * j) |-> value]]

\* dense_matrix_v::clear
clear(m) == EmptyMatrix

\* what the last call was and did; the buffers before it are kept for solve()
Called(op) == [op |-> op, outcome |-> "ok", native |-> "none", err |-> 0,
               resolve |-> FALSE, preA |-> EmptyMatrix, preB |-> EmptyMatrix,
               preX |-> EmptyMatrix, retB |-> EmptyMatrix]

\* linearsystem::resize(_size_i, _size_j, _size_k, _value), _value left T()
resize(i, j, k) ==
  /\ m_A' = Filled(i, j, Zero)
  /\ m_b' = Filled(i, k, Zero)
  /\ m_x' = Filled(j, k, Zero)
  /\ solved' = FALSE
  /\ nsolve' = 0
  /\ last' = Called("resize")
  /\ UNCHANGED <<T, idx, vec, rd>>

\* linearsystem::initialize(vA, vb): the values of A and of b.
\* It overwrites all a solve() left, so a call after solve() leads where a
\* call after resize() to the same shape leads: only the latter is taken.
initialize(vA, vb) ==
  /\ last.op = "resize"
  /\ m_A' = [m_A EXCEPT !.a = vA]
  /\ m_b' = [m_b EXCEPT !.a = vb]
  /\ m_x' = Filled(m_A.size[2], m_b.size[2], Zero)
  /\ solved' = FALSE
  /\ nsolve' = 0
  /\ last' = Called("initialize")
  /\ UNCHANGED <<T, idx, vec, rd>>

(***************************************************************************)
(* LAPACK::solve.                                                          *)
(***************************************************************************)
\* err of a non-square system matrix
ERR_SQUARE == -17

\* err of a numeric type with no native routine
ERR_PRECISION == -42

\* the chain with the numeric type looked at before the shape
dispatch_type_first(t, A) ==
  IF t = "double" /\ is_square_size(A.size) THEN "dgesv_"
  ELSE IF t = "float" /\ is_square_size(A.size) THEN "sgesv_"
  ELSE IF t \notin {"double", "float"} THEN "precision"
  ELSE "square"

\* the chain without its last else: any type but float goes to dgesv_
dispatch_no_else(t, A) ==
  IF ~is_square_size(A.size) THEN "square"
  ELSE IF t = "float" THEN "sgesv_"
  ELSE "dgesv_"

\* the branch of the if/else-if chain solve() takes
dispatch(t, A) ==
  IF ~is_square_size(A.size) THEN "square"
  ELSE IF t = "double" THEN "dgesv_"
  ELSE IF t = "float" THEN "sgesv_"
  ELSE "precision"

\* the two reserved codes compared with <= and < instead of ==
classify_by_magnitude(err) ==
  IF err <= ERR_SQUARE THEN "square"
  ELSE IF err < 0 - 3 THEN "precision"
  ELSE IF err < 0 THEN "native_argument"
  ELSE IF err > 0 THEN "singular"
  ELSE "ok"

\* the message solve() builds from err: which condition it reports
classify(err) ==
  IF err = ERR_SQUARE THEN "square"
  ELSE IF err = ERR_PRECISION THEN "precision"
  ELSE IF err < 0 THEN "native_argument"
  ELSE IF err > 0 THEN "singular"
  ELSE "ok"

\* the solution copied into x, b neither exchanged nor cleared
commit_copy(b, x) == [b |-> b, x |-> b]

\* b().swap(x()); b().clear()
commit(b, x) == [b |-> clear(x), x |-> b]

\* err after the if/else-if chain, the native routine (when called) giving info
err_of(way, info) ==
  IF way = "square" THEN ERR_SQUARE
  ELSE IF way = "precision" THEN ERR_PRECISION
  ELSE info

\* solve() from the throw on: err is reported, or the solution is committed
solve_finish(way, err, A1, b1, x) ==
  [native |-> IF way \in {"dgesv_", "sgesv_"} THEN way ELSE "none",
   err |-> err,
   outcome |-> classify(err),
   retB |-> b1,
   A |-> A1,
   b |-> IF err = 0 THEN commit(b1, x).b ELSE b1,
   x |-> IF err = 0 THEN commit(b1, x).x ELSE x]

\* solve() after the native routine, called on the buffers of A and b, left g
solve_native(way, A, b, x, g) ==
  solve_finish(way, err_of(way, g.info), [A EXCEPT !.a = g.a], [b EXCEPT !.a = g.b], x)

\* one call of solve() on the system (t, A, b, x) that gets as far as its
\* if/else-if chain: the native routine called, err, and the buffers after it;
\* n is size(0), the rows of A, and nrhs is size(2), the columns of b
solve_call(t, A, b, x) ==
  IF dispatch(t, A) \in {"dgesv_", "sgesv_"}
    THEN solve_native(dispatch(t, A), A, b, x,
           gesv(to_int(A.size[1]), to_int(b.size[2]), A.a, to_int(A.size[1]),
                b.a, to_int(A.size[1])))
    ELSE solve_finish(dispatch(t, A), err_of(dispatch(t, A), 0), A, b, x)

\* &a[0] of an empty std::vector is undefined: a hardened build stops there,
\* any other build goes on with a pointer the routine may never follow
solve_ub(t, A, b) ==
  dispatch(t, A) \in {"dgesv_", "sgesv_"} /\ (A.a = <<>> \/ b.a = <<>>)

\* the state solve() leaves, r being what the call did
solve_result(r) ==
  /\ m_A' = r.A
  /\ m_b' = r.b
  /\ m_x' = r.x
  /\ solved' = (solved \/ r.err = 0)
  /\ last' = [op |-> "solve", outcome |-> r.outcome, native |-> r.native,
              err |-> r.err, resolve |-> solved, preA |-> m_A, preB |-> m_b,
              preX |-> m_x, retB |-> r.retB]

\* LAPACK::solve()
solve ==
  \E hardened \in BOOLEAN :
    /\ nsolve < MaxSolves
    /\ nsolve' = nsolve + 1
    /\ hardened => solve_ub(T, m_A, m_b)
    /\ IF hardened
         THEN /\ UNCHANGED <<m_A, m_b, m_x, solved>>
              /\ last' = [op |-> "solve", outcome |-> "abort", native |-> "none",
                          err |-> 0, resolve |-> solved, preA |-> m_A,
                          preB |-> m_b, preX |-> m_x, retB |-> m_b]
         ELSE solve_result(solve_call(T, m_A, m_b, m_x))
    /\ UNCHANGED <<T, idx, vec, rd>>

(***************************************************************************)
(* Calls of the utilities, each recorded with its arguments and result.    *)
(***************************************************************************)
Pairs == SizeT \X SizeT

Vectors == UNION {[1..n -> SizeT] : n \in 0..MaxLen}

Stems == UNION {[1..n -> {"a", "."}] : n \in 0..MaxStem}

Tails == {<<>>, <<".">>, <<"m", "t", "x">>,
          <<".", "m", "t", "x">>, <<".", "r", "u", "a">>, <<".", "c", "s", "r">>,
          <<".", "M", "T", "X">>, <<".", "x", "y", "z">>,
          <<".", "m", "t">>, <<".", "m", "t", "x", "x">>}

FileNames == {st \o tl : st \in Stems, tl \in Tails}

NoIdx == [op |-> "none", self |-> idx_default, other |-> idx_default, ret |-> FALSE]

NoVec == [op |-> "none", v |-> <<>>, e |-> 0, out |-> <<>>]

NoRead == [fn |-> "none", fname |-> <<>>, T |-> "double", backend |-> "none",
           backendRet |-> FALSE, thrown |-> "none", what |-> <<>>,
           converted |-> FALSE, returned |-> FALSE]

NoCall == Called("none")

\* p.is_valid_size()
call_is_valid_size ==
  /\ idx.op = "none"
  /\ idx' = [idx EXCEPT !.op = "is_valid_size", !.ret = is_valid_size(idx.self)]
  /\ UNCHANGED <<T, m_A, m_b, m_x, solved, nsolve, last, vec, rd>>

\* p.is_square_size()
call_is_square_size ==
  /\ idx.op = "none"
  /\ idx' = [idx EXCEPT !.op = "is_square_size", !.ret = is_square_size(idx.self)]
  /\ UNCHANGED <<T, m_A, m_b, m_x, solved, nsolve, last, vec, rd>>

\* p < q
call_less ==
  /\ idx.op = "none"
  /\ idx' = [idx EXCEPT !.op = "<", !.ret = idx_lt(idx.self, idx.other)]
  /\ UNCHANGED <<T, m_A, m_b, m_x, solved, nsolve, last, vec, rd>>

\* p.invalidate()
call_invalidate ==
  /\ idx.op = "none"
  /\ idx' = [idx EXCEPT !.op = "invalidate", !.self = invalidate(idx.self),
                        !.ret = TRUE]
  /\ UNCHANGED <<T, m_A, m_b, m_x, solved, nsolve, last, vec, rd>>

\* vector_sorted_diagonal_first_t::apply(v, pivot), the pivot a size_t index
\* that the int parameter of apply receives converted
call_sorted_diagonal_first ==
  /\ vec.op = "none"
  /\ vec' = [vec EXCEPT !.op = "sorted_diagonal_first",
               !.out = vector_sorted_diagonal_first_t(vec.v, to_int(vec.e))]
  /\ UNCHANGED <<T, m_A, m_b, m_x, solved, nsolve, last, idx, rd>>

\* vector_add_value::apply(v, delta), delta the int to_int(e)
call_add_value ==
  /\ vec.op = "none"
  /\ vec' = [vec EXCEPT !.op = "add_value",
               !.out = vector_add_value(vec.v, to_int(vec.e))]
  /\ UNCHANGED <<T, m_A, m_b, m_x, solved, nsolve, last, idx, rd>>

\* read_dense< T >(fname, ...), the backend it selects returning rd.backendRet
read_dense ==
  /\ rd.fn = "none"
  /\ rd' = read_call("read_dense", rd.fname, rd.T, rd.backendRet)
  /\ UNCHANGED <<T, m_A, m_b, m_x, solved, nsolve, last, idx, vec>>

\* read_sparse< T >(fname, ...), the backend it selects returning rd.backendRet
read_sparse ==
  /\ rd.fn = "none"
  /\ rd' = read_call("read_sparse", rd.fname, rd.T, rd.backendRet)
  /\ UNCHANGED <<T, m_A, m_b, m_x, solved, nsolve, last, idx, vec>>

(***************************************************************************)
(* Specifications.                                                         *)
(***************************************************************************)
Init ==
  /\ T \in Types
  /\ m_A = EmptyMatrix
  /\ m_b = EmptyMatrix
  /\ m_x = EmptyMatrix
  /\ solved = FALSE
  /\ nsolve = 0
  /\ last = NoCall
  /\ idx = NoIdx
  /\ vec = NoVec
  /\ rd = NoRead

\* the linear system: resize, initialize and solve in any order
Next ==
  \/ \E i \in 0..MaxN, j \in 0..MaxN : resize(i, j, size_k_default)
  \/ \E vA \in [1..(m_A.size[1] * m_A.size[2]) -> Vals],
        vb \in [1..(m_A.size[1] * m_b.size[2]) -> Vals] : initialize(vA, vb)
  \/ solve

Spec == Init /\ [][Next]_vars

Idle ==
  /\ T = "double"
  /\ m_A = EmptyMatrix
  /\ m_b = EmptyMatrix
  /\ m_x = EmptyMatrix
  /\ solved = FALSE
  /\ nsolve = 0
  /\ last = NoCall

\* any two index pairs, before a call
InitIdx ==
  /\ Idle
  /\ \E p \in Pairs, q \in Pairs : idx = [NoIdx EXCEPT !.self = p, !.other = q]
  /\ vec = NoVec
  /\ rd = NoRead

\* any index vector and any element, before a call
InitVec ==
  /\ Idle
  /\ idx = NoIdx
  /\ \E v \in Vectors, e \in SizeT : vec = [NoVec EXCEPT !.v = v, !.e = e]
  /\ rd = NoRead

\* any file name, target type and backend answer, before a call
InitRead ==
  /\ Idle
  /\ idx = NoIdx
  /\ vec = NoVec
  /\ \E fname \in FileNames, t \in Types, ret \in BOOLEAN :
       rd = [NoRead EXCEPT !.fname = fname, !.T = t, !.backendRet = ret]

\* the index pair
NextIdx ==
  \/ call_is_valid_size
  \/ call_is_square_size
  \/ call_less
  \/ call_invalidate

SpecIdx == InitIdx /\ [][NextIdx]_vars

\* the vector transformations
NextVec ==
  \/ call_sorted_diagonal_first
  \/ call_add_value

SpecVec == InitVec /\ [][NextVec]_vars

\* the generic readers
NextRead ==
  \/ read_dense
  \/ read_sparse

SpecRead == InitRead /\ [][NextRead]_vars

(***************************************************************************)
(* Properties of solve(), checked under Spec.                              *)
(***************************************************************************)
\* the last call was a solve() that called a native routine, which returned 0
SolvedNow ==
  last.op = "solve" /\ last.native \in {"dgesv_", "sgesv_"} /\ last.err = 0

\* C1: after a solve() whose native routine returns 0, x is exactly what b
\* held when the routine returned, and b is empty.
C1_SolutionMovedIntoX ==
  SolvedNow => (m_x = last.retB /\ m_b.a = <<>> /\ m_b = EmptyMatrix)

\* C1 witness: a first solve of a populated double system has succeeded, and
\* x is neither what it was before nor the right-hand side that was supplied.
C1_Witness ==
  /\ SolvedNow
  /\ last.native = "dgesv_"
  /\ ~last.resolve
  /\ m_x = last.retB
  /\ m_x.a # last.preX.a
  /\ m_x.a # last.preB.a
  /\ m_b.a = <<>>

\* C2: once a solve() has succeeded, a further solve() with no resize or
\* initialize in between reaches no native routine and does not succeed.
C2_NoSolveOnConsumedB ==
  (last.op = "solve" /\ last.resolve) =>
    (last.native = "none" /\ last.outcome # "ok")

NoNativeRoutine ==
  ~is_square_size(last.preA.size) \/ T \notin {"double", "float"}

C5_NonSquareIsRejected ==
  (last.op = "solve" /\ ~is_square_size(last.preA.size)) =>
    /\ last.outcome = "square"
    /\ last.err = ERR_SQUARE
    /\ last.native = "none"
    /\ m_x = last.preX
    /\ m_b = last.preB

\* C5 witness: a populated 2x1 system of a type with no native routine was
\* handed to solve(), which reported the dimension error.
C5_Witness ==
  /\ last.op = "solve"
  /\ T = "int"
  /\ last.preA.size = <<2, 1>>
  /\ last.outcome = "square"
  /\ last.native = "none"
  /\ \E k \in 1..Len(m_b.a) : m_b.a[k] # Zero

\* every status xGESV can return on a system of the model
NativeStatus == (0 - GesvArgs)..MaxN

Recognized(fname) ==
  \E k \in 1..Len(fname) :
    /\ fname[k] = "."
    /\ \A h \in (k + 1)..Len(fname) : fname[h] # "."
    /\ SubSeq(fname, k, Len(fname)) \in
         {<<".", "m", "t", "x">>, <<".", "r", "u", "a">>, <<".", "c", "s", "r">>}

\* C4: the generic reader returns what the backend it selected returned.
C4_ReturnsBackendValue ==
  (rd.fn # "none" /\ rd.backend # "none") => rd.returned = rd.backendRet

\* C6: a name that does not end in .mtx, .rua or .csr, a name without any '.'
\* included, aborts with the format-detection error that carries the name, and
\* no backend is called.
C6_UnrecognizedIsFormatError ==
  (rd.fn # "none" /\ ~Recognized(rd.fname)) =>
    /\ rd.thrown = "runtime_error"
    /\ rd.what = rd.fname
    /\ rd.backend = "none"

(***************************************************************************)
(* Properties of the index pair, checked under SpecIdx.                    *)
(***************************************************************************)
\* C7: is_valid_size() is false for (0, k) for every k and for the default
\* pair, and holds only strictly between (0, 0) and the default pair.
C7_ValidSizeIsPositive ==
  idx.op = "is_valid_size" =>
    /\ idx.self[1] = 0 => ~idx.ret
    /\ idx.self = idx_default => ~idx.ret
    /\ idx.ret => (idx_gt(idx.self, <<0, 0>>) /\ idx_lt(idx.self, idx_default))

(***************************************************************************)
(* Properties of the vector transformations, checked under SpecVec.        *)
(***************************************************************************)
\* C8: for every vector and every unsigned pivot, the sorted-diagonal-first
\* result starts with the pivot, the rest is strictly ascending, and the pivot
\* does not occur again.
C8_PivotFirstRestSorted ==
  vec.op = "sorted_diagonal_first" =>
    /\ Len(vec.out) >= 1
    /\ vec.out[1] = vec.e
    /\ \A k \in 2..(Len(vec.out) - 1) : vec.out[k] < vec.out[k + 1]
    /\ \A k \in 2..Len(vec.out) : vec.out[k] # vec.e

\* C9: the offset shift leaves a vector of the same length whose every element
\* is the old element plus the delta.
C9_AddValueShifts ==
  vec.op = "add_value" =>
    /\ Len(vec.out) = Len(vec.v)
    /\ \A k \in 1..Len(vec.v) :
         vec.out[k] = to_size_t(vec.v[k] + to_int(vec.e))

====
